---- MODULE Spec2Model ----
(***************************************************************************)
(* Model of the Konect database MCP server: connectDatabase / loadModels   *)
(* (the schema registry loader) and the query_database tool handler, in    *)
(* the primary index.ts and in the older ("legacy") index.ts.              *)
(*                                                                         *)
(* JavaScript runs one task at a time: a synchronous stretch of code is    *)
(* never interleaved with another, and continuations of settled promises   *)
(* (microtasks) run before the next I/O event (macrotask) is delivered.    *)
(* loadModels has no await in its body, so a whole load pass is one        *)
(* synchronous stretch; it is modelled in several steps that hold the      *)
(* thread (lm.proc) so that the states inside the pass are visible.        *)
(***************************************************************************)
EXTENDS Integers, Sequences, FiniteSets, TLC

\* ---------------------------------------------------------------- bounds
NumHandlers == 2
MaxSeqCalls == 3
MaxDocs == 3
MaxVaried == 2

\* ------------------------------------------------------------- processes
Main == 0
InitCall == 0 - 1
SeqCaller == 0 - 2
Handlers == 1..NumHandlers
Procs == {Main, InitCall, SeqCaller} \cup Handlers

Variants == {"primary", "legacy"}

\* --------------------------------------------------------- names, catalog
AVAILABLE_MODELS == {"User", "Vehicle", "Booking"}
RequestNames == AVAILABLE_MODELS \cup {"NotAThing"}
Catalogs == { <<"User", "Vehicle", "Booking">>, <<"User", "Vehicle">> }

SharedMongoose == "mongoose@server"
OwnMongoose == "mongoose@drivio-web-service"
MongooseId == "mongoose"
ConfigId == "../../../config"
IndexId == "database/mongoose/models/index.js"
DrivioPath == "drivio-web-service"

NoNodePath == [set |-> FALSE, dirs |-> << >>]
NodePaths == { NoNodePath, [set |-> TRUE, dirs |-> << >>],
               [set |-> TRUE, dirs |-> <<"/usr/lib/node">>] }

\* ------------------------------------------------- requests and documents
DefaultLimit == 100
MinLimit == 1
MaxLimit == 1000
MinSkip == 0

Docs == 1..MaxDocs
Filters == {"all", "odd"}
FieldNames == {"_id", "name", "password", "host", "vehicle"}
RelFields == {"host", "vehicle"}

\* an optional argument is << >> when left out and <<value>> when given;
\* a projection is a set of <<field, 0 or 1>> pairs
DefaultRequest ==
  [model |-> "User", filter |-> "all", projection |-> << >>, sort |-> << >>,
   limit |-> << >>, skip |-> << >>, populate |-> << >>]

ProjectionValues ==
  { << >>, << {<<"name", 1>>} >>, << {<<"password", 0>>} >>,
    << {<<"name", 1>>, <<"password", 0>>} >> }
SortValues == { << >>, <<1>>, <<0 - 1>> }
LimitValues == { << >>, <<0>>, <<1>>, <<2>>, <<MaxLimit>>, <<MaxLimit + 1>> }
SkipValues == { << >>, <<0>>, <<1>>, <<2>>, <<0 - 1>> }
PopulateValues ==
  { << >>, <<"host">>, <<"host", "vehicle">>, <<"vehicle", "host">>, <<"owner">> }

AllRequests ==
  [model : RequestNames, filter : Filters, projection : ProjectionValues,
   sort : SortValues, limit : LimitValues, skip : SkipValues,
   populate : PopulateValues]

Varied(r) == Cardinality({f \in DOMAIN r : r[f] # DefaultRequest[f]})

\* calls that leave all but the model name at its default
NarrowRequests == {[DefaultRequest EXCEPT !.model = m] : m \in RequestNames}

\* calls that differ from the default call in at most MaxVaried arguments
ShapedRequests == {r \in AllRequests : Varied(r) <= MaxVaried}

VARIABLES
  variant,       \* which index.ts is running
  catalog,       \* the model files models/index.js requires, in order
  failEntry,     \* index of the model file that throws when executed (0: none)
  alive,         \* the process has not exited
  exitCode,
  dbConnected,   \* let dbConnected
  connState,     \* mongoose.connection: disconnected / connecting / connected
  connectCalls,  \* number of mongoose.connect calls issued
  connRes,       \* per caller: outcome of its pending mongoose.connect
  modelNames,    \* mongoose.modelNames() of the server's mongoose instance
  moduleCache,   \* Node's require cache: modules that loaded without throwing
  requireFn,     \* Module.prototype.require
  nodePath,      \* process.env.NODE_PATH
  lm,            \* the loadModels activation on the stack (proc = 0-9: none)
  loadCalls,     \* number of loadModels executions started
  loadRes,       \* per caller: outcome of its loadModels promise
  cdRes,         \* per caller: outcome of its connectDatabase promise
  cdNoop,        \* number of connectDatabase calls that took the early return
  requireLog,    \* requires made while a load pass ran: id and what was returned
  unhandled,     \* unhandled promise rejection: none / pending / warned
  transportUp,   \* server.connect(transport) has completed
  pc,            \* per process: where it is
  req,           \* per handler: the tool call's arguments
  resp,          \* per handler: what was returned to the caller
  storeCalls,    \* per handler: find / countDocuments calls issued
  seqCalls,      \* direct sequential calls of connectDatabase made so far
  store,         \* ids of the documents now in the queried collection
  q,             \* per handler: the query it built and what the store returned
  phase          \* per handler: the phases the call has gone through, in order

vars == << variant, catalog, failEntry, alive, exitCode, dbConnected, connState,
           connectCalls, connRes, modelNames, moduleCache, requireFn, nodePath,
           lm, loadCalls, loadRes, cdRes, cdNoop, requireLog, unhandled,
           transportUp, pc, req, resp, storeCalls, seqCalls, store, q, phase >>

qvars == << store, q, phase >>

NoProc == 0 - 9
NoLm == [proc |-> NoProc, idx |-> 0, savedRequire |-> "original",
         savedNodePath |-> << >>, entryNodePath |-> NoNodePath, thrown |-> FALSE]
NoReq == [DefaultRequest EXCEPT !.model = "-"]
NoQ == [filter |-> "-", projection |-> << >>, sort |-> << >>, skip |-> 0,
        limit |-> 0, populate |-> {}, populateCalls |-> 0, results |-> << >>,
        countFilter |-> "-", failedAt |-> "none"]
NoResp == [kind |-> "-", cause |-> "-"]

\* ------------------------------------------------------- pure helpers

\* loadModels.ts:87  originalRequire.apply(this, arguments)
OriginalRequire(id) == IF id = MongooseId THEN OwnMongoose ELSE id

\* the override without its test on the module id
RequireOverrideNoTest(id) == OriginalRequire(id)

\* loadModels.ts:81-88  the function installed as Module.prototype.require
RequireOverride(id) == IF id = MongooseId THEN SharedMongoose ELSE OriginalRequire(id)

\* a require(id) issued by a model file: dispatches on Module.prototype.require
Require(fn, id) == IF fn = "override" THEN RequireOverride(id) ELSE OriginalRequire(id)

\* loadModels.ts:60  process.env.NODE_PATH || ""
OrEmpty(np) == IF np.set THEN np.dirs ELSE << >>

\* loadModels.ts:65-66  drivioPath + (originalNodePath ? ":" + originalNodePath : "")
WithDrivio(dirs) == [set |-> TRUE, dirs |-> <<DrivioPath>> \o dirs]

\* the restore written at the end of the try body instead of in finally
RestoredRequireTryOnly(thrown, saved, current) == IF thrown THEN current ELSE saved

\* loadModels.ts:101-108  what the finally block leaves in Module.prototype.require
RestoredRequire(thrown, saved, current) == saved

\* loadModels.ts:107  what the finally block leaves in process.env.NODE_PATH
RestoredNodePath(thrown, saved) == [set |-> TRUE, dirs |-> saved]

\* connectDatabase without its guard
EarlyReturnNever(flag) == FALSE

\* part_000:55 / 351  if (dbConnected) return;
EarlyReturn(flag) == flag

\* a connect failure swallowed, with the load attempted all the same
LoadAfterConnectAlways(res) == TRUE

\* part_000:60-72 / 356-365  loadModels is reached only past the awaited connect
LoadAfterConnect(res) == res = "ok"

\* the flag left as it was after a successful connect
FlagAfterConnectNever(res, flag) == flag

\* the flag set whatever the outcome of the connect
FlagAfterConnectAlways(res, flag) == TRUE

\* part_000:66 / 360  dbConnected = true (never assigned false anywhere)
FlagAfterConnect(res, flag) == IF res = "ok" THEN TRUE ELSE flag

\* the flag cleared when the load pass failed, to have the next call retry
FlagAfterLoadRetry(res, flag) == IF res = "err" THEN FALSE ELSE flag

\* part_000:66-73 / 360-370  nothing after `dbConnected = true` assigns the flag
FlagAfterLoad(res, flag) == flag

\* part_000:127-156 / 380-413  inputSchema: the SDK rejects a call whose model
\* is not in the enum, whose limit is outside [1, 1000] or whose skip is negative
ValidInput(r) ==
  /\ r.model \in AVAILABLE_MODELS
  /\ r.limit # << >> => (r.limit[1] >= MinLimit /\ r.limit[1] <= MaxLimit)
  /\ r.skip # << >> => r.skip[1] >= MinSkip

\* the schema defaults swapped: limit 1000 where none was given
ParseInputMaxDefault(r) ==
  [r EXCEPT !.limit = IF r.limit = << >> THEN <<MaxLimit>> ELSE r.limit,
            !.skip = IF r.skip = << >> THEN <<0>> ELSE r.skip]

\* part_000:148-155 / 395-411  .default(100), .default(0): the parsed arguments
ParseInput(r) ==
  [r EXCEPT !.limit = IF r.limit = << >> THEN <<DefaultLimit>> ELSE r.limit,
            !.skip = IF r.skip = << >> THEN <<0>> ELSE r.skip]

\* a cap applied to the query that the echoed limit does not show
ActualLimitCapped(v, limit) == IF limit > 1 THEN 1 ELSE limit

\* part_000:201 (limit as parsed) / 459  Math.min(limit, 1000)
ActualLimit(v, limit) ==
  IF v = "legacy" /\ limit > MaxLimit THEN MaxLimit ELSE limit

\* each populate call replacing the directives made before it
PopulateLoopLastOnly(fields) ==
  [paths |-> IF fields = << >> THEN {} ELSE {fields[Len(fields)]},
   calls |-> Len(fields)]

\* part_000:206-208 / 463-465  for (const field of populate) mongoQuery.populate(field)
RECURSIVE PopulateFrom(_, _)
PopulateFrom(fields, acc) ==
  IF fields = << >> THEN acc
  ELSE PopulateFrom(Tail(fields),
                    [paths |-> acc.paths \cup {Head(fields)}, calls |-> acc.calls + 1])

PopulateLoop(fields) == PopulateFrom(fields, [paths |-> {}, calls |-> 0])

\* the query built without the caller's filter
BuildQueryNoFilter(v, a) ==
  [filter |-> "all", projection |-> a.projection, sort |-> a.sort,
   skip |-> a.skip[1], limit |-> ActualLimit(v, a.limit[1]),
   populate |-> PopulateLoop(a.populate).paths,
   populateCalls |-> PopulateLoop(a.populate).calls,
   results |-> << >>, countFilter |-> "-", failedAt |-> "none"]

\* part_000:188-208 / 446-465  the query handed to exec(), from the parsed arguments
BuildQuery(v, a) ==
  [filter |-> a.filter, projection |-> a.projection, sort |-> a.sort,
   skip |-> a.skip[1], limit |-> ActualLimit(v, a.limit[1]),
   populate |-> PopulateLoop(a.populate).paths,
   populateCalls |-> PopulateLoop(a.populate).calls,
   results |-> << >>, countFilter |-> "-", failedAt |-> "none"]

\* countDocuments given an empty filter
CountQueryAll(a) == "all"

\* part_000:217 / 471  Model.countDocuments(query)
CountQuery(a) == a.filter

\* the store: which documents a filter matches
Matches(d, f) == f = "all" \/ d % 2 = 1
Matching(S, f) == {d \in S : Matches(d, f)}

\* the store: documents in sort order (ascending id when no sort is given)
RECURSIVE Ordered(_, _)
Ordered(S, dir) ==
  IF S = {} THEN << >>
  ELSE LET m == IF dir = 1 THEN CHOOSE x \in S : \A y \in S : x <= y
                 ELSE CHOOSE x \in S : \A y \in S : x >= y
       IN <<m>> \o Ordered(S \ {m}, dir)

SortDir(sort) == IF sort = << >> THEN 1 ELSE sort[1]

\* the store: skip, then limit
Window(seq, skip, limit) ==
  LET last == IF skip + limit < Len(seq) THEN skip + limit ELSE Len(seq)
  IN IF skip >= Len(seq) THEN << >> ELSE SubSeq(seq, skip + 1, last)

\* the store rejects a projection that both includes and excludes fields
Mixed(proj) ==
  proj # << >> /\ \E a \in proj[1] : \E b \in proj[1] : a[2] = 1 /\ b[2] = 0

Visible(proj) ==
  IF proj = << >> \/ proj[1] = {} THEN FieldNames
  ELSE IF \E a \in proj[1] : a[2] = 1
       THEN {a[1] : a \in proj[1]} \cup {"_id"}
       ELSE FieldNames \ {a[1] : a \in proj[1]}

\* the store: what exec() resolves to for query qq on collection S
FindResult(S, qq) ==
  LET w == Window(Ordered(Matching(S, qq.filter), SortDir(qq.sort)), qq.skip, qq.limit)
  IN [i \in 1..Len(w) |->
        [id |-> w[i], fields |-> Visible(qq.projection),
         populated |-> qq.populate \cap RelFields \cap Visible(qq.projection)]]

\* a read that removes what it returned (as findOneAndDelete would)
StoreAfterReadConsuming(S, returned) == S \ returned

\* part_000:213, 217 / 468, 471  find().lean().exec() and countDocuments() only
\* read: the collection after the call
StoreAfterRead(S, returned) == S

Ids(results) == {results[i].id : i \in 1..Len(results)}

\* hasMore taken from the returned count alone
HasMoreNoSkip(skip, n, total) == n < total

\* part_000:241 / 481  skip + results.length < totalCount
HasMore(skip, n, total) == skip + n < total

\* part_000:233-243 / 473-483  the success envelope
Envelope(v, a, qq, results, total) ==
  IF v = "primary"
  THEN [kind |-> "Success", cause |-> a.model, model |-> a.model,
        count |-> Len(results), totalCount |-> total, skip |-> a.skip[1],
        limit |-> a.limit[1], hasMore |-> HasMore(a.skip[1], Len(results), total),
        results |-> results]
  ELSE [kind |-> "Success", cause |-> a.model, model |-> a.model,
        query |-> a.filter,
        count |-> Len(results), totalCount |-> total, skip |-> a.skip[1],
        limit |-> qq.limit, hasMore |-> HasMore(a.skip[1], Len(results), total),
        results |-> results]

\* a failed find followed by the count all the same
AfterFindAlwaysCount(ok) == "await_count"

\* part_000:213-217, 250 / 468-471, 493  a rejected exec() skips to the catch block
AfterFind(ok) == IF ok THEN "await_count" ELSE "done"

\* a lookup that registers the name it was asked for
NamesAfterLookupRegisters(m, names) == names \cup {m}

\* part_000:169, 184 / 443  mongoose.modelNames() and mongoose.model(name) read
\* the registry: the registered names after the handler's lookup
NamesAfterLookup(m, names) == names

\* part_000:169  mongoose.modelNames().includes(model)
IsRegistered(m, names) == m \in names

\* part_000:497  error instanceof mongoose.Error
IsMongooseError(cause) == cause \in {"ConnectError", "MissingSchemaError"}

\* the catch block answering without the error's message
CatchResponseNoMessage(v, cause) == [kind |-> "DatabaseError", cause |-> "-"]

\* part_000:250-264 / 493-517  the handler's catch block
CatchResponse(v, cause) ==
  IF v = "primary" \/ IsMongooseError(cause)
  THEN [kind |-> "DatabaseError", cause |-> cause]
  ELSE [kind |-> "ExecError", cause |-> cause]

\* ------------------------------------------------------- scheduling

\* a continuation that runs before the next I/O event is delivered
Ready(p) ==
  \/ pc[p] = "cd_await_connect" /\ connRes[p] # "none"
  \/ pc[p] \in {"lm_start", "lm_entries", "lm_finally", "cd_loaded", "cd_returned"}

\* I/O events delivered in the middle of a synchronous stretch
QuiescentAnyTime == alive

\* the event loop delivers the next I/O event only when the running code has
\* returned and no continuation is queued
Quiescent == alive /\ lm.proc = NoProc /\ unhandled # "pending"
             /\ \A p \in Procs : ~Ready(p)

CanRun(p) == alive /\ (lm.proc = NoProc \/ lm.proc = p)

\* ------------------------------------------------------- initial states

InitCommon ==
  /\ variant \in Variants
  /\ catalog \in Catalogs
  /\ failEntry \in 0..Len(catalog)
  /\ nodePath \in NodePaths
  /\ alive = TRUE
  /\ exitCode = 0
  /\ dbConnected = FALSE
  /\ modelNames = {}
  /\ moduleCache = {}
  /\ requireFn = "original"
  /\ lm = NoLm
  /\ loadCalls = 0
  /\ loadRes = [p \in Procs |-> "none"]
  /\ cdRes = [p \in Procs |-> "none"]
  /\ connRes = [p \in Procs |-> "none"]
  /\ cdNoop = 0
  /\ requireLog = {}
  /\ unhandled = "none"
  /\ transportUp = FALSE
  /\ req = [h \in Handlers |-> NoReq]
  /\ resp = [h \in Handlers |-> NoResp]
  /\ storeCalls = [h \in Handlers |-> 0]
  /\ seqCalls = 0
  /\ q = [h \in Handlers |-> NoQ]
  /\ phase = [h \in Handlers |-> << >>]

\* The state once the module body has been evaluated: main() (primary) or the
\* module-level connectDatabase() (legacy) has called mongoose.connect, and the
\* legacy main() has called server.connect.
Init ==
  /\ InitCommon
  /\ store = Docs
  /\ connState = "connecting"
  /\ connectCalls = 1
  /\ pc = [p \in Procs |->
            IF p \in Handlers THEN "idle"
            ELSE IF p = SeqCaller THEN "off"
            ELSE IF variant = "primary"
                 THEN (IF p = Main THEN "cd_await_connect" ELSE "off")
                 ELSE (IF p = Main THEN "m_server_connect" ELSE "cd_await_connect")]

\* connectDatabase driven directly, one call after the other.
InitSeq ==
  /\ InitCommon
  /\ store = Docs
  /\ connState = "disconnected"
  /\ connectCalls = 0
  /\ pc = [p \in Procs |-> IF p = SeqCaller THEN "s_idle" ELSE "off"]

\* ------------------------------------------------------- connectDatabase

\* part_000:53-63 / 350-359: the synchronous head of connectDatabase, as run by
\* caller p: return at once when the flag is set, else call mongoose.connect.
CallConnectDatabase(p) ==
  IF EarlyReturn(dbConnected)
  THEN /\ pc' = [pc EXCEPT ![p] = "cd_returned"]
       /\ cdRes' = [cdRes EXCEPT ![p] = "ok"]
       /\ cdNoop' = cdNoop + 1
       /\ UNCHANGED << connState, connectCalls, connRes >>
  ELSE /\ pc' = [pc EXCEPT ![p] = "cd_await_connect"]
       /\ connectCalls' = connectCalls + 1
       /\ connState' = IF connState = "disconnected" THEN "connecting" ELSE connState
       /\ connRes' = [connRes EXCEPT ![p] = IF connState = "connected" THEN "ok" ELSE "none"]
       /\ UNCHANGED << cdNoop, cdRes >>

\* mongoose.connect settles: every caller waiting on the connection gets the outcome
ConnectSettles ==
  /\ UNCHANGED qvars
  /\ Quiescent
  /\ connState = "connecting"
  /\ \E ok \in BOOLEAN :
       /\ connState' = IF ok THEN "connected" ELSE "disconnected"
       /\ connRes' = [p \in Procs |->
                        IF pc[p] = "cd_await_connect" /\ connRes[p] = "none"
                        THEN (IF ok THEN "ok" ELSE "err") ELSE connRes[p]]
  /\ UNCHANGED << variant, catalog, failEntry, alive, exitCode, dbConnected,
                  connectCalls, modelNames, moduleCache, requireFn, nodePath, lm,
                  loadCalls, loadRes, cdRes, cdNoop, requireLog, unhandled,
                  transportUp, pc, req, resp, storeCalls, seqCalls >>

\* part_000:60-72 / 356-369 and loadModels.ts:49-88: the caller resumes after the
\* awaited connect; on success it sets the flag and enters loadModels, which
\* saves NODE_PATH and Module.prototype.require and installs the override.
CD_Resume(p) ==
  /\ UNCHANGED qvars
  /\ CanRun(p)
  /\ pc[p] = "cd_await_connect"
  /\ connRes[p] # "none"
  /\ dbConnected' = FlagAfterConnect(connRes[p], dbConnected)
  /\ connRes' = [connRes EXCEPT ![p] = "none"]
  /\ IF LoadAfterConnect(connRes[p])
     THEN /\ pc' = [pc EXCEPT ![p] = "lm_start"]
          /\ lm' = [proc |-> p, idx |-> 0, savedRequire |-> requireFn,
                    savedNodePath |-> OrEmpty(nodePath),
                    entryNodePath |-> nodePath, thrown |-> FALSE]
          /\ nodePath' = WithDrivio(OrEmpty(nodePath))
          /\ requireFn' = "override"
          /\ loadCalls' = loadCalls + 1
          /\ UNCHANGED cdRes
     ELSE /\ pc' = [pc EXCEPT ![p] = "cd_returned"]
          /\ cdRes' = [cdRes EXCEPT ![p] = "ConnectError"]
          /\ UNCHANGED << lm, nodePath, requireFn, loadCalls >>
  /\ UNCHANGED << variant, catalog, failEntry, alive, exitCode, connState,
                  connectCalls, modelNames, moduleCache, loadRes, cdNoop,
                  requireLog, unhandled, transportUp, req, resp, storeCalls,
                  seqCalls >>

\* loadModels.ts:95  modelRequire(join(modelsPath, "index.js")): resolved through
\* Module.prototype.require; a cached index.js is returned without running it.
LM_Start(p) ==
  /\ UNCHANGED qvars
  /\ CanRun(p)
  /\ pc[p] = "lm_start"
  /\ requireLog' = requireLog \cup {[id |-> IndexId, got |-> Require(requireFn, IndexId)]}
  /\ IF IndexId \in moduleCache
     THEN pc' = [pc EXCEPT ![p] = "lm_finally"] /\ UNCHANGED lm
     ELSE pc' = [pc EXCEPT ![p] = "lm_entries"] /\ lm' = [lm EXCEPT !.idx = 1]
  /\ UNCHANGED << variant, catalog, failEntry, alive, exitCode, dbConnected,
                  connState, connectCalls, connRes, modelNames, moduleCache,
                  requireFn, nodePath, loadCalls, loadRes, cdRes, cdNoop,
                  unhandled, transportUp, req, resp, storeCalls, seqCalls >>

\* loadModels.ts:91-95: index.js requires the model files in order; each one
\* requires mongoose and the config and calls mongoose.model(name, schema) on
\* the mongoose it was given.  A file that throws aborts index.js.
LM_LoadEntry(p) ==
  /\ UNCHANGED qvars
  /\ CanRun(p)
  /\ pc[p] = "lm_entries"
  /\ IF lm.idx > Len(catalog)
     THEN /\ moduleCache' = moduleCache \cup {IndexId}
          /\ pc' = [pc EXCEPT ![p] = "lm_finally"]
          /\ UNCHANGED << lm, modelNames, requireLog >>
     ELSE LET name == catalog[lm.idx]
              got == Require(requireFn, MongooseId)
          IN IF name \in moduleCache
             THEN /\ lm' = [lm EXCEPT !.idx = lm.idx + 1]
                  /\ UNCHANGED << pc, modelNames, moduleCache, requireLog >>
             ELSE /\ requireLog' = requireLog \cup
                       {[id |-> MongooseId, got |-> got],
                        [id |-> ConfigId, got |-> Require(requireFn, ConfigId)]}
                  /\ IF lm.idx = failEntry
                     THEN /\ lm' = [lm EXCEPT !.thrown = TRUE]
                          /\ pc' = [pc EXCEPT ![p] = "lm_finally"]
                          /\ UNCHANGED << modelNames, moduleCache >>
                     ELSE /\ lm' = [lm EXCEPT !.idx = lm.idx + 1]
                          /\ modelNames' = IF got = SharedMongoose
                                           THEN modelNames \cup {name}
                                           ELSE modelNames
                          /\ moduleCache' = moduleCache \cup {name}
                          /\ UNCHANGED pc
  /\ UNCHANGED << variant, catalog, failEntry, alive, exitCode, dbConnected,
                  connState, connectCalls, connRes, requireFn, nodePath,
                  loadCalls, loadRes, cdRes, cdNoop, unhandled, transportUp,
                  req, resp, storeCalls, seqCalls >>

\* loadModels.ts:101-108: the finally block, then the async function's promise
\* settles with the outcome of the try body.
LM_Finally(p) ==
  /\ UNCHANGED qvars
  /\ CanRun(p)
  /\ pc[p] = "lm_finally"
  /\ requireFn' = RestoredRequire(lm.thrown, lm.savedRequire, requireFn)
  /\ nodePath' = RestoredNodePath(lm.thrown, lm.savedNodePath)
  /\ loadRes' = [loadRes EXCEPT ![p] = IF lm.thrown THEN "err" ELSE "ok"]
  /\ lm' = NoLm
  /\ pc' = [pc EXCEPT ![p] = "cd_loaded"]
  /\ UNCHANGED << variant, catalog, failEntry, alive, exitCode, dbConnected,
                  connState, connectCalls, connRes, modelNames, moduleCache,
                  loadCalls, cdRes, cdNoop, requireLog, unhandled, transportUp,
                  req, resp, storeCalls, seqCalls >>

\* part_000:72-73: `await loadModels()`: connectDatabase settles as loadModels did.
\* part_000:365-370: `loadModels()` is not awaited: connectDatabase resolves, and
\* a rejected loadModels promise is left without a handler.
CD_Return(p) ==
  /\ UNCHANGED qvars
  /\ CanRun(p)
  /\ pc[p] = "cd_loaded"
  /\ pc' = [pc EXCEPT ![p] = "cd_returned"]
  /\ loadRes' = [loadRes EXCEPT ![p] = "none"]
  /\ dbConnected' = FlagAfterLoad(loadRes[p], dbConnected)
  /\ IF variant = "primary"
     THEN /\ cdRes' = [cdRes EXCEPT ![p] = IF loadRes[p] = "ok" THEN "ok" ELSE "LoadError"]
          /\ UNCHANGED unhandled
     ELSE /\ cdRes' = [cdRes EXCEPT ![p] = "ok"]
          /\ unhandled' = IF loadRes[p] = "err" THEN "pending" ELSE unhandled
  /\ UNCHANGED << variant, catalog, failEntry, alive, exitCode, connState,
                  connectCalls, connRes, modelNames, moduleCache,
                  requireFn, nodePath, lm, loadCalls, cdNoop, requireLog,
                  transportUp, req, resp, storeCalls, seqCalls >>

\* Node's handling of a promise rejection nobody handles: the default since
\* Node 15 ends the process with code 1, older versions and --unhandled-rejections
\* =warn only print a warning.
UnhandledRejection ==
  /\ UNCHANGED qvars
  /\ alive
  /\ lm.proc = NoProc
  /\ unhandled = "pending"
  /\ \E crash \in BOOLEAN :
       IF crash
       THEN alive' = FALSE /\ exitCode' = 1 /\ unhandled' = "crashed"
       ELSE unhandled' = "warned" /\ UNCHANGED << alive, exitCode >>
  /\ UNCHANGED << variant, catalog, failEntry, dbConnected, connState,
                  connectCalls, connRes, modelNames, moduleCache, requireFn,
                  nodePath, lm, loadCalls, loadRes, cdRes, cdNoop, requireLog,
                  transportUp, pc, req, resp, storeCalls, seqCalls >>

\* ------------------------------------------------------- main

\* part_000:282-301: main continues after `await connectDatabase()`; a rejection
\* reaches main().catch, which calls process.exit(1).
MainAfterConnect ==
  /\ UNCHANGED qvars
  /\ CanRun(Main)
  /\ pc[Main] = "cd_returned"
  /\ cdRes' = [cdRes EXCEPT ![Main] = "none"]
  /\ IF cdRes[Main] = "ok"
     THEN pc' = [pc EXCEPT ![Main] = "m_server_connect"] /\ UNCHANGED << alive, exitCode >>
     ELSE pc' = [pc EXCEPT ![Main] = "exited"] /\ alive' = FALSE /\ exitCode' = 1
  /\ UNCHANGED << variant, catalog, failEntry, dbConnected, connState,
                  connectCalls, connRes, modelNames, moduleCache, requireFn,
                  nodePath, lm, loadCalls, loadRes, cdNoop, requireLog, unhandled,
                  transportUp, req, resp, storeCalls, seqCalls >>

\* part_000:290-293 / 521-525: server.connect(transport) completes
MainServerConnect ==
  /\ UNCHANGED qvars
  /\ Quiescent
  /\ pc[Main] = "m_server_connect"
  /\ transportUp' = TRUE
  /\ pc' = [pc EXCEPT ![Main] = "m_running"]
  /\ UNCHANGED << variant, catalog, failEntry, alive, exitCode, dbConnected,
                  connState, connectCalls, connRes, modelNames, moduleCache,
                  requireFn, nodePath, lm, loadCalls, loadRes, cdRes, cdNoop,
                  requireLog, unhandled, req, resp, storeCalls, seqCalls >>

\* part_000:373: connectDatabase().catch(console.error)
InitAfterConnect ==
  /\ UNCHANGED qvars
  /\ CanRun(InitCall)
  /\ pc[InitCall] = "cd_returned"
  /\ cdRes' = [cdRes EXCEPT ![InitCall] = "none"]
  /\ pc' = [pc EXCEPT ![InitCall] = "done"]
  /\ UNCHANGED << variant, catalog, failEntry, alive, exitCode, dbConnected,
                  connState, connectCalls, connRes, modelNames, moduleCache,
                  requireFn, nodePath, lm, loadCalls, loadRes, cdNoop, requireLog,
                  unhandled, transportUp, req, resp, storeCalls, seqCalls >>

\* ------------------------------------------------------- query_database

\* the handler going on to find whatever the name
ModelLookupNoCheck(v, m, names) == "find"

\* where the registration check sends the handler: reply / throw / find
\* part_000:167-188 (primary), part_000:430-446 (legacy)
ModelLookup(v, m, names) ==
  IF v = "primary"
  THEN (IF ~IsRegistered(m, names) THEN "NotRegistered" ELSE "find")
  ELSE (IF m \notin AVAILABLE_MODELS THEN "InvalidModelName"
        ELSE IF m \notin names THEN "MissingSchemaError" ELSE "find")

\* part_000:167-213 / 430-468: from the registration check to the issued find,
\* for a call of handler h with the arguments r as sent
HandlerBody(h, r) ==
  LET a == ParseInput(r)
      go == ModelLookup(variant, a.model, modelNames) IN
  /\ modelNames' = NamesAfterLookup(a.model, modelNames)
  /\ IF go = "find"
     THEN /\ pc' = [pc EXCEPT ![h] = "await_find"]
          /\ storeCalls' = [storeCalls EXCEPT ![h] = storeCalls[h] + 1]
          /\ q' = [q EXCEPT ![h] = BuildQuery(variant, a)]
          /\ UNCHANGED resp
     ELSE /\ pc' = [pc EXCEPT ![h] = "done"]
          /\ resp' = [resp EXCEPT ![h] =
                        IF go = "MissingSchemaError" THEN CatchResponse(variant, go)
                        ELSE [kind |-> go, cause |-> a.model]]
          /\ UNCHANGED << storeCalls, q >>

\* the phases a call of model m adds when the handler body runs
BodyPhases(m) ==
  IF ModelLookup(variant, m, modelNames) = "find" THEN <<"Validated">> ELSE <<"Failed">>

\* a tools/call request r arrives: the SDK validates the arguments against
\* inputSchema and only then runs the handler up to its first await.
\* part_000:127-165 / 380-428
StartCall(h, r) ==
  /\ Quiescent
  /\ transportUp
  /\ pc[h] = "idle"
  /\ req' = [req EXCEPT ![h] = r]
  /\ IF ~ValidInput(r)
     THEN /\ pc' = [pc EXCEPT ![h] = "done"]
          /\ resp' = [resp EXCEPT ![h] = [kind |-> "InvalidParams", cause |-> r.model]]
          /\ phase' = [phase EXCEPT ![h] = <<"Received", "Failed">>]
          /\ UNCHANGED << storeCalls, q, connState, connectCalls, connRes, cdNoop,
                          cdRes, modelNames >>
     ELSE IF ~dbConnected
          THEN /\ CallConnectDatabase(h)
               /\ phase' = [phase EXCEPT ![h] = <<"Received">>]
               /\ UNCHANGED << resp, storeCalls, q, modelNames >>
          ELSE /\ HandlerBody(h, r)
               /\ phase' = [phase EXCEPT ![h] = <<"Received">> \o BodyPhases(r.model)]
               /\ UNCHANGED << connState, connectCalls, connRes, cdNoop, cdRes >>
  /\ UNCHANGED << variant, catalog, failEntry, alive, exitCode, dbConnected,
                  moduleCache, requireFn, nodePath, lm, loadCalls,
                  loadRes, requireLog, unhandled, transportUp, seqCalls, store >>

\* a call that names a model and leaves every other argument out
Invoke(h) == pc[h] = "idle" /\ \E r \in NarrowRequests : StartCall(h, r)

\* a call with shaping arguments
InvokeShaped(h) == pc[h] = "idle" /\ \E r \in ShapedRequests : StartCall(h, r)

\* part_000:163-165 / 426-428: the handler resumes after `await connectDatabase()`;
\* a rejection lands in the handler's catch block.
HandlerAfterConnect(h) ==
  /\ CanRun(h)
  /\ h \in Handlers
  /\ pc[h] = "cd_returned"
  /\ cdRes' = [cdRes EXCEPT ![h] = "none"]
  /\ IF cdRes[h] = "ok"
     THEN /\ HandlerBody(h, req[h])
          /\ phase' = [phase EXCEPT ![h] = phase[h] \o BodyPhases(req[h].model)]
     ELSE /\ pc' = [pc EXCEPT ![h] = "done"]
          /\ resp' = [resp EXCEPT ![h] = CatchResponse(variant, cdRes[h])]
          /\ phase' = [phase EXCEPT ![h] = phase[h] \o <<"Failed">>]
          /\ UNCHANGED << storeCalls, q, modelNames >>
  /\ UNCHANGED << variant, catalog, failEntry, alive, exitCode, dbConnected,
                  connState, connectCalls, connRes, moduleCache,
                  requireFn, nodePath, lm, loadCalls, loadRes, cdNoop, requireLog,
                  unhandled, transportUp, req, seqCalls, store >>

\* part_000:213-217 / 468-471: exec() settles with what the store holds at that
\* moment; on success countDocuments is issued, on failure the catch block
\* answers.  The store may fail any call, and fails a mixed projection.
FindSettles(h) ==
  /\ Quiescent
  /\ pc[h] = "await_find"
  /\ \E ok \in BOOLEAN :
       /\ ok => ~Mixed(q[h].projection)
       /\ pc' = [pc EXCEPT ![h] = AfterFind(ok)]
       /\ IF ok
          THEN /\ storeCalls' = [storeCalls EXCEPT ![h] = storeCalls[h] + 1]
               /\ q' = [q EXCEPT ![h].results = FindResult(store, q[h]),
                                 ![h].countFilter = CountQuery(ParseInput(req[h]))]
               /\ store' = StoreAfterRead(store, Ids(FindResult(store, q[h])))
               /\ UNCHANGED << resp, phase >>
          ELSE /\ resp' = [resp EXCEPT ![h] = CatchResponse(variant, "StoreError")]
               /\ q' = [q EXCEPT ![h].failedAt = "find"]
               /\ phase' = [phase EXCEPT ![h] = phase[h] \o <<"Failed">>]
               /\ UNCHANGED << storeCalls, store >>
  /\ UNCHANGED << variant, catalog, failEntry, alive, exitCode, dbConnected,
                  connState, connectCalls, connRes, modelNames, moduleCache,
                  requireFn, nodePath, lm, loadCalls, loadRes, cdRes, cdNoop,
                  requireLog, unhandled, transportUp, req, seqCalls >>

\* part_000:217-264 / 471-517: countDocuments settles with what the store holds
\* at that moment; the envelope is returned, or the catch block answers.
CountSettles(h) ==
  /\ Quiescent
  /\ pc[h] = "await_count"
  /\ pc' = [pc EXCEPT ![h] = "done"]
  /\ store' = StoreAfterRead(store, {})
  /\ \E ok \in BOOLEAN :
       IF ok
       THEN /\ resp' = [resp EXCEPT ![h] =
                          Envelope(variant, ParseInput(req[h]), q[h], q[h].results,
                                   Cardinality(Matching(store, q[h].countFilter)))]
            /\ phase' = [phase EXCEPT ![h] = phase[h] \o <<"Executed", "Assembled", "Done">>]
            /\ UNCHANGED q
       ELSE /\ resp' = [resp EXCEPT ![h] = CatchResponse(variant, "StoreError")]
            /\ q' = [q EXCEPT ![h].failedAt = "count"]
            /\ phase' = [phase EXCEPT ![h] = phase[h] \o <<"Failed">>]
  /\ UNCHANGED << variant, catalog, failEntry, alive, exitCode, dbConnected,
                  connState, connectCalls, connRes, modelNames, moduleCache,
                  requireFn, nodePath, lm, loadCalls, loadRes, cdRes, cdNoop,
                  requireLog, unhandled, transportUp, req, storeCalls, seqCalls >>

\* another client of the database inserts or deletes a document while a call
\* of this server is in flight
StoreChanges ==
  /\ alive
  /\ \E h \in Handlers : pc[h] \in {"await_find", "await_count"}
  /\ \E d \in Docs : store' = IF d \in store THEN store \ {d} ELSE store \cup {d}
  /\ UNCHANGED << variant, catalog, failEntry, alive, exitCode, dbConnected,
                  connState, connectCalls, connRes, modelNames, moduleCache,
                  requireFn, nodePath, lm, loadCalls, loadRes, cdRes, cdNoop,
                  requireLog, unhandled, transportUp, pc, req, resp, storeCalls,
                  seqCalls, q, phase >>

\* ------------------------------------------------------- sequential driver

\* connectDatabase() called again once the previous call has settled
SeqCall ==
  /\ UNCHANGED qvars
  /\ Quiescent
  /\ pc[SeqCaller] = "s_idle"
  /\ seqCalls < MaxSeqCalls
  /\ seqCalls' = seqCalls + 1
  /\ CallConnectDatabase(SeqCaller)
  /\ UNCHANGED << variant, catalog, failEntry, alive, exitCode, dbConnected,
                  modelNames, moduleCache, requireFn, nodePath, lm, loadCalls,
                  loadRes, requireLog, unhandled, transportUp, req, resp,
                  storeCalls >>

SeqAfterConnect ==
  /\ UNCHANGED qvars
  /\ CanRun(SeqCaller)
  /\ pc[SeqCaller] = "cd_returned"
  /\ cdRes' = [cdRes EXCEPT ![SeqCaller] = "none"]
  /\ pc' = [pc EXCEPT ![SeqCaller] = "s_idle"]
  /\ UNCHANGED << variant, catalog, failEntry, alive, exitCode, dbConnected,
                  connState, connectCalls, connRes, modelNames, moduleCache,
                  requireFn, nodePath, lm, loadCalls, loadRes, cdNoop, requireLog,
                  unhandled, transportUp, req, resp, storeCalls, seqCalls >>

\* ------------------------------------------------------- specifications

Loader ==
  \/ ConnectSettles
  \/ \E p \in Procs : CD_Resume(p)
  \/ \E p \in Procs : LM_Start(p)
  \/ \E p \in Procs : LM_LoadEntry(p)
  \/ \E p \in Procs : LM_Finally(p)
  \/ \E p \in Procs : CD_Return(p)
  \/ UnhandledRejection

Next ==
  \/ Loader
  \/ MainAfterConnect
  \/ MainServerConnect
  \/ InitAfterConnect
  \/ \E h \in Handlers : Invoke(h)
  \/ \E h \in Handlers : HandlerAfterConnect(h)
  \/ \E h \in Handlers : FindSettles(h)
  \/ \E h \in Handlers : CountSettles(h)

Spec == Init /\ [][Next]_vars

NextSeq ==
  \/ Loader
  \/ SeqCall
  \/ SeqAfterConnect

SpecSeq == InitSeq /\ [][NextSeq]_vars

\* The server after a startup that went well (connected, every model file of
\* the catalog loaded, transport up), serving one call with shaping arguments
\* against a collection other clients write to.
Started(active) ==
  /\ variant \in Variants
  /\ catalog = <<"User", "Vehicle">>
  /\ failEntry = 0
  /\ nodePath = [set |-> TRUE, dirs |-> << >>]
  /\ alive = TRUE
  /\ exitCode = 0
  /\ dbConnected = TRUE
  /\ connState = "connected"
  /\ connectCalls = 1
  /\ modelNames = {"User", "Vehicle"}
  /\ moduleCache = {"User", "Vehicle", IndexId}
  /\ requireFn = "original"
  /\ lm = NoLm
  /\ loadCalls = 1
  /\ loadRes = [p \in Procs |-> "none"]
  /\ cdRes = [p \in Procs |-> "none"]
  /\ connRes = [p \in Procs |-> "none"]
  /\ cdNoop = 0
  /\ requireLog = { [id |-> IndexId, got |-> IndexId],
                    [id |-> MongooseId, got |-> SharedMongoose],
                    [id |-> ConfigId, got |-> ConfigId] }
  /\ unhandled = "none"
  /\ transportUp = TRUE
  /\ pc = [p \in Procs |->
            IF p \in active THEN "idle"
            ELSE IF p = Main THEN "m_running"
            ELSE IF p = InitCall /\ variant = "legacy" THEN "done"
            ELSE "off"]
  /\ req = [h \in Handlers |-> NoReq]
  /\ resp = [h \in Handlers |-> NoResp]
  /\ storeCalls = [h \in Handlers |-> 0]
  /\ seqCalls = 0
  /\ q = [h \in Handlers |-> NoQ]
  /\ phase = [h \in Handlers |-> << >>]
  /\ store \in SUBSET Docs

InitQuery == Started({1})

NextQuery ==
  \/ \E h \in Handlers : InvokeShaped(h)
  \/ \E h \in Handlers : FindSettles(h)
  \/ \E h \in Handlers : CountSettles(h)
  \/ StoreChanges

SpecQuery == InitQuery /\ [][NextQuery]_vars

\* Two calls in flight at the same time on the started server, with requests
\* that differ in model, filter, skip and limit.
PairRequests ==
  {r \in AllRequests :
     /\ r.model \in {"User", "Vehicle"}
     /\ r.limit \in {<< >>, <<1>>}
     /\ r.skip \in {<< >>, <<1>>}
     /\ r.projection = << >> /\ r.sort = << >> /\ r.populate = << >>}

InvokePair(h) == pc[h] = "idle" /\ \E r \in PairRequests : StartCall(h, r)

NextPair ==
  \/ \E h \in Handlers : InvokePair(h)
  \/ \E h \in Handlers : FindSettles(h)
  \/ \E h \in Handlers : CountSettles(h)

InitPair == Started({1, 2})

SpecPair == InitPair /\ [][NextPair]_vars

\* One call with shaping arguments against a collection nobody else writes to.
NextStill ==
  \/ \E h \in Handlers : InvokeShaped(h)
  \/ \E h \in Handlers : FindSettles(h)
  \/ \E h \in Handlers : CountSettles(h)

SpecStill == InitQuery /\ [][NextStill]_vars

\* every store call issued eventually returns or fails
SpecQueryFair ==
  /\ SpecQuery
  /\ \A h \in Handlers : WF_vars(FindSettles(h)) /\ WF_vars(CountSettles(h))

\* ------------------------------------------------------- properties

\* C1: however the calls interleave, loadModels is executed at most once in the
\* process (callers racing for the first load share one pass).
C1_OneLoadPass == loadCalls <= 1

\* C2: a connectDatabase call made in sequence while dbConnected is true returns
\* at once, without connecting or loading, and leaves the registered names as
\* they were; over any sequence of calls at most one load pass runs.
C2_SecondCallNoop ==
  /\ [][ (pc[SeqCaller] = "s_idle" /\ seqCalls' = seqCalls + 1 /\ dbConnected)
           => /\ pc'[SeqCaller] = "cd_returned"
              /\ cdRes'[SeqCaller] = "ok"
              /\ modelNames' = modelNames
              /\ connectCalls' = connectCalls
              /\ connState' = connState
              /\ loadCalls' = loadCalls
              /\ lm' = lm ]_vars
  /\ [](loadCalls <= 1)

\* a second call that found the flag set after a first pass that had failed
C2_Witness ==
  /\ seqCalls >= 2
  /\ cdNoop >= 1
  /\ failEntry # 0
  /\ loadCalls = 1
  /\ pc[SeqCaller] = "cd_returned"

\* C3: a load pass is running, or has run, only if mongoose.connect completed
\* successfully before it.
C3_LoadOnlyAfterConnect ==
  (lm.proc # NoProc \/ loadCalls > 0) => connState = "connected"

\* a load pass running, after a first connect attempt that had failed
C3_Witness == lm.proc # NoProc /\ connectCalls >= 2 /\ loadCalls = 1

\* C4: with three catalog entries of which the second fails, a finished load
\* pass leaves exactly the first and the third registered.
C4_PartialLoad ==
  (Len(catalog) = 3 /\ failEntry = 2 /\ loadCalls > 0 /\ lm.proc = NoProc)
    => modelNames = {catalog[1], catalog[3]}

\* C5: connectDatabase and loadModels never settle with a failure.
C5_NeverThrows ==
  \A p \in Procs : cdRes[p] \in {"none", "ok"} /\ loadRes[p] # "err"

\* C6: the process ends only when no load pass was ever started, that is, on a
\* failure to establish the store connection, never on a load failure.
C6_LoadFailureNotFatal == ~alive => loadCalls = 0

\* C7: outside a load pass Module.prototype.require is the function that was
\* installed before the pass, whether the pass returned or threw.
C7_RequireRestored == lm.proc = NoProc => requireFn = "original"

\* a load pass that threw has just left its finally block
C7_Witness ==
  \E p \in Procs : loadRes[p] = "err" /\ loadCalls > 0 /\ lm.proc = NoProc
                   /\ requireFn = "original"

\* C8: every require made during a load pass got the server's connected mongoose
\* for "mongoose", and what the original require resolves for any other id.
C8_SharedInstance ==
  \A e \in requireLog :
    e.got = IF e.id = MongooseId THEN SharedMongoose ELSE OriginalRequire(e.id)

\* a model file has required both mongoose and its config during a pass
C8_Witness ==
  /\ [id |-> MongooseId, got |-> SharedMongoose] \in requireLog
  /\ [id |-> ConfigId, got |-> ConfigId] \in requireLog
  /\ modelNames # {}

\* C9: once dbConnected is true it stays true.
C9_FlagNeverResets == [][dbConnected => dbConnected']_vars

\* the flag still set after a failed load pass and an answered query
C9_Witness ==
  /\ dbConnected
  /\ failEntry # 0
  /\ loadCalls > 0
  /\ \E h \in Handlers : pc[h] = "done" /\ resp[h].kind = "Success"

\* a reply that names the requested schema as unknown
IdentifiesUnknownSchema(r) ==
  \/ r.kind \in {"NotRegistered", "InvalidModelName", "InvalidParams"}
  \/ r.cause = "MissingSchemaError"

\* C10: a finished call on a name that is not registered was answered with a
\* failure identifying the unknown schema, and issued no find or countDocuments.
C10_UnknownSchema ==
  \A h \in Handlers :
    (pc[h] = "done" /\ req[h].model \notin modelNames)
      => (IdentifiesUnknownSchema(resp[h]) /\ storeCalls[h] = 0)

\* ---------------------------------------------- properties of the query path

Success(h) == pc[h] = "done" /\ resp[h].kind = "Success"
Range(seq) == {seq[i] : i \in 1..Len(seq)}

\* C11: a call whose projection both includes and excludes fields issues no
\* store call and is answered with an invalid-shape failure.
C11_MixedProjectionRejected ==
  \A h \in Handlers :
    Mixed(req[h].projection)
      => /\ storeCalls[h] = 0
         /\ pc[h] = "done" => resp[h].kind \in {"InvalidShape", "InvalidParams"}

LimitOutOfRange(r) ==
  r.limit # << >> /\ (r.limit[1] < MinLimit \/ r.limit[1] > MaxLimit)
Clamp(n) == IF n < MinLimit THEN MinLimit ELSE IF n > MaxLimit THEN MaxLimit ELSE n

\* C12: a call on a registered model that is valid but for a limit outside
\* [1, 1000] is executed, with the limit clamped to the nearest bound.
C12_LimitClamped ==
  \A h \in Handlers :
    ( /\ pc[h] = "done"
      /\ LimitOutOfRange(req[h])
      /\ ValidInput([req[h] EXCEPT !.limit = << >>])
      /\ req[h].model \in modelNames )
      => /\ resp[h].kind # "InvalidParams"
         /\ storeCalls[h] >= 1
         /\ q[h].limit = Clamp(req[h].limit[1])

\* C13: a call sent without a limit queries the store with limit 100, one sent
\* without a skip with offset 0, and a successful result echoes these values.
C13_Defaults ==
  \A h \in Handlers :
    storeCalls[h] > 0
      => /\ req[h].limit = << >>
              => (q[h].limit = 100 /\ (Success(h) => resp[h].limit = 100))
         /\ req[h].skip = << >>
              => (q[h].skip = 0 /\ (Success(h) => resp[h].skip = 0))

\* a call without limit and skip answered with documents
C13_Witness ==
  \E h \in Handlers :
    /\ Success(h)
    /\ req[h].limit = << >> /\ req[h].skip = << >>
    /\ resp[h].limit = 100 /\ resp[h].skip = 0
    /\ resp[h].count = MaxDocs

\* C14: every successful result has count <= limit and totalCount >= count.
C14_CountBounds ==
  \A h \in Handlers :
    Success(h) => (resp[h].count <= resp[h].limit /\ resp[h].totalCount >= resp[h].count)

\* C15: in every successful result hasMore is true exactly when
\* skip + count < totalCount, count being the number of documents returned
\* and skip the offset the query was given.
C15_HasMore ==
  \A h \in Handlers :
    Success(h)
      => /\ resp[h].hasMore <=> (resp[h].skip + resp[h].count < resp[h].totalCount)
         /\ resp[h].count = Len(resp[h].results)
         /\ resp[h].skip = q[h].skip

\* the last page: totalCount 3, skip 2, limit 2 gives one document and no more
C15_Witness ==
  \E h \in Handlers :
    /\ Success(h)
    /\ resp[h].totalCount = 3 /\ resp[h].skip = 2 /\ resp[h].limit = 2
    /\ resp[h].count = 1 /\ resp[h].hasMore = FALSE

\* C16: a store call that failed ended the call with a failure message carrying
\* the store's message; the failed call was not issued again and the process
\* is still running.
C16_StoreFailureReported ==
  \A h \in Handlers :
    q[h].failedAt # "none"
      => /\ pc[h] = "done"
         /\ resp[h].kind \in {"DatabaseError", "ExecError"}
         /\ resp[h].cause = "StoreError"
         /\ storeCalls[h] = IF q[h].failedAt = "find" THEN 1 ELSE 2
         /\ alive

\* a call whose countDocuments failed after its find had succeeded
C16_Witness ==
  \E h \in Handlers :
    q[h].failedAt = "count" /\ pc[h] = "done" /\ Len(q[h].results) > 0

PhasePath == <<"Received", "Validated", "Executed", "Assembled", "Done">>
IsPrefix(s1, s2) == Len(s1) <= Len(s2) /\ SubSeq(s2, 1, Len(s1)) = s1
Last(sq) == IF sq = << >> THEN "-" ELSE sq[Len(sq)]
WellFormedPhases(tr) ==
  \/ IsPrefix(tr, PhasePath)
  \/ /\ Len(tr) >= 2 /\ Len(tr) <= Len(PhasePath)
     /\ Last(tr) = "Failed"
     /\ IsPrefix(SubSeq(tr, 1, Len(tr) - 1), PhasePath)

\* C17: the phases of a call are a prefix of Received, Validated, Executed,
\* Assembled, Done, possibly cut short by Failed; a call has returned exactly
\* when its last phase is Done or Failed (Done for a success envelope), and a
\* store query was issued only for a call that was Validated.
C17_StateMachine ==
  \A h \in Handlers :
    /\ WellFormedPhases(phase[h])
    /\ pc[h] = "done" <=> Last(phase[h]) \in {"Done", "Failed"}
    /\ pc[h] = "done" => (Last(phase[h]) = "Done" <=> resp[h].kind = "Success")
    /\ storeCalls[h] > 0 => (Len(phase[h]) >= 2 /\ phase[h][2] = "Validated")

\* one call went through all five phases while another failed after its find
C17_Witness ==
  \E h \in Handlers : \E g \in Handlers :
    /\ phase[h] = PhasePath
    /\ phase[g] = <<"Received", "Validated", "Failed">>

\* C18: a call whose store query has begun is answered: the process does not
\* end while the call is still awaiting the store, so its response can be sent.
C18_PendingCallAnswered ==
  \A h \in Handlers : pc[h] \in {"await_find", "await_count"} => alive

\* Once the startup has completed without failure, a call awaiting the store is
\* eventually answered (store calls settling fairly), and an answer once given
\* is the only one.
CallCompletesAfterStartup ==
  /\ \A h \in Handlers :
       (pc[h] \in {"await_find", "await_count"}) ~> (pc[h] = "done" /\ resp[h] # NoResp)
  /\ [][\A h \in Handlers : resp[h] # NoResp => resp'[h] = resp[h]]_vars

\* C19: one populate directive is issued per listed field, the query expands
\* the set of listed fields, and every returned document has exactly the listed
\* relationship fields (among those it carries) expanded, whatever the order.
C19_PopulateIndependent ==
  \A h \in Handlers :
    /\ storeCalls[h] > 0
         => (q[h].populateCalls = Len(req[h].populate)
             /\ q[h].populate = Range(req[h].populate))
    /\ Success(h)
         => \A i \in 1..Len(resp[h].results) :
              resp[h].results[i].populated =
                (Range(req[h].populate) \cap RelFields) \cap resp[h].results[i].fields

\* vehicle listed before host, both expanded
C19_Witness ==
  \E h \in Handlers :
    /\ Success(h)
    /\ req[h].populate = <<"vehicle", "host">>
    /\ resp[h].count > 0
    /\ resp[h].results[1].populated = {"host", "vehicle"}

\* C20: countDocuments is given the filter the find was given, and the
\* totalCount of a success is the number of documents matching that filter
\* when the count is taken, whatever the projection, sort, limit, skip, populate.
C20_TotalFromFilter ==
  [][\A h \in Handlers :
       (pc[h] = "await_count" /\ pc'[h] = "done" /\ resp'[h].kind = "Success")
         => /\ q[h].countFilter = req[h].filter
            /\ q[h].filter = req[h].filter
            /\ resp'[h].totalCount = Cardinality(Matching(store, req[h].filter))]_vars

\* a filtered, paginated call: two documents match, one is returned
C20_Witness ==
  \E h \in Handlers :
    /\ Success(h)
    /\ req[h].filter = "odd" /\ req[h].limit = <<1>>
    /\ resp[h].totalCount = 2 /\ resp[h].count = 1

\* ------------------------------- properties of the connection and the startup

\* C21: at most one mongoose.connect call of the process succeeds.
C21_ConnectOnce == Cardinality({p \in Procs : connRes[p] = "ok"}) <= 1

\* a load pass has run to its end at least once
FirstPassDone == loadCalls >= 2 \/ (loadCalls = 1 /\ lm.proc = NoProc)

\* C22: once a load pass has completed, no step (validation, lookup, find,
\* count, envelope, catch block) changes the registered names or dbConnected.
C22_RegistryReadOnly ==
  [][FirstPassDone => (modelNames' = modelNames /\ dbConnected' = dbConnected)]_vars

\* after the load pass, a call on a name that had not been registered was
\* answered and the name is still not registered, next to a call that succeeded
C22_Witness ==
  /\ FirstPassDone
  /\ \E h \in Handlers :
       /\ pc[h] = "done" /\ storeCalls[h] = 0
       /\ req[h].model \in AVAILABLE_MODELS \ modelNames
  /\ \E g \in Handlers : Success(g)

\* C23: no step of a call changes the documents of the collection, and a
\* success whose find saw the collection as it is now is the one response that
\* the request and the collection determine.
C23_ReadOnly ==
  /\ [][(\E h \in Handlers : pc'[h] # pc[h]) => store' = store]_vars
  /\ [](\A h \in Handlers :
          (Success(h) /\ resp[h].results = FindResult(store, q[h]))
            => resp[h] = Envelope(variant, ParseInput(req[h]),
                                  BuildQuery(variant, ParseInput(req[h])),
                                  FindResult(store, BuildQuery(variant, ParseInput(req[h]))),
                                  Cardinality(Matching(store, req[h].filter))))

\* a call returned every document of a full collection, which is still full
C23_Witness ==
  \E h \in Handlers :
    /\ Success(h)
    /\ store = Docs
    /\ resp[h].count = MaxDocs /\ resp[h].totalCount = MaxDocs
    /\ Ids(resp[h].results) = store

SkipOf(r) == IF r.skip = << >> THEN 0 ELSE r.skip[1]
LimitOf(r) == IF r.limit = << >> THEN 100 ELSE r.limit[1]
IdSeq(results) == [i \in 1..Len(results) |-> results[i].id]

\* C24: with several calls in flight, each success echoes the model, skip and
\* limit of its own request and carries the documents and the count of its own
\* filter.
C24_CallLocal ==
  \A h \in Handlers :
    Success(h)
      => /\ resp[h].model = req[h].model
         /\ resp[h].skip = SkipOf(req[h])
         /\ resp[h].limit = LimitOf(req[h])
         /\ IdSeq(resp[h].results) =
              Window(Ordered(Matching(store, req[h].filter), 1),
                     SkipOf(req[h]), LimitOf(req[h]))
         /\ resp[h].totalCount = Cardinality(Matching(store, req[h].filter))

\* two calls in flight together, on different models, filters and limits
C24_Witness ==
  /\ Success(1) /\ Success(2)
  /\ req[1].model # req[2].model
  /\ req[1].filter = "all" /\ req[2].filter = "odd"
  /\ req[1].limit = <<1>> /\ req[2].limit = << >>
  /\ resp[1].count = 1 /\ resp[2].count = 2
  /\ resp[1].totalCount = 3 /\ resp[2].totalCount = 2

\* C25: every success response carries model, query, count, totalCount, skip,
\* limit, hasMore and results, query being the filter that was executed.
C25_EnvelopeFields ==
  \A h \in Handlers :
    Success(h)
      => /\ {"model", "query", "count", "totalCount", "skip", "limit",
             "hasMore", "results"} \subseteq DOMAIN resp[h]
         /\ resp[h].query = q[h].filter

\* C26: the transport is connected only after the database connection is
\* established and a load pass has completed.
C26_StartupOrder ==
  transportUp => (connState = "connected" /\ FirstPassDone)

\* C27: the skip and limit echoed in a success are the offset and limit the
\* store query was given, which bound the documents returned.
C27_EchoApplied ==
  \A h \in Handlers :
    Success(h)
      => /\ resp[h].skip = q[h].skip
         /\ resp[h].limit = q[h].limit
         /\ resp[h].count <= q[h].limit

\* the second and third of three documents, asked for with skip 1 and limit 2
C27_Witness ==
  \E h \in Handlers :
    /\ Success(h)
    /\ req[h].skip = <<1>> /\ req[h].limit = <<2>>
    /\ resp[h].skip = 1 /\ resp[h].limit = 2
    /\ IdSeq(resp[h].results) = <<2, 3>>

\* C28: when loadModels leaves its finally block, process.env.NODE_PATH is what
\* it was when loadModels was entered, set or not.
C28_NodePathRestored ==
  [][\A p \in Procs :
       (pc[p] = "lm_finally" /\ pc'[p] = "cd_loaded") => nodePath' = lm.entryNodePath]_vars

\* the handler has got past its lazy trigger, to the registration check or beyond
ReachedLookup(h) ==
  \/ pc[h] \in {"await_find", "await_count"}
  \/ /\ pc[h] = "done"
     /\ resp[h].kind # "InvalidParams"
     /\ resp[h].cause \notin {"ConnectError", "LoadError"}

\* C29: a handler that has reached the registration check or a store query did
\* so with the flag set, the connection established and a load pass finished.
C29_FlagImpliesLoaded ==
  \A h \in Handlers :
    ReachedLookup(h) => (dbConnected /\ connState = "connected" /\ FirstPassDone)

\* a call that found the flag set after the startup pass had failed
C29_Witness ==
  \E h \in Handlers :
    /\ ReachedLookup(h)
    /\ failEntry # 0 /\ loadCalls = 1 /\ connectCalls = 1 /\ cdNoop = 0

\* C30: dbConnected is true only while the connection is established; a caller
\* whose connect failed leaves the flag false and gets the error; a valid call
\* that finds the flag false issues a new mongoose.connect.
C30_FlagOnlyAfterConnect ==
  /\ [](dbConnected => connState = "connected")
  /\ [][\A p \in Procs :
          (pc[p] = "cd_await_connect" /\ connRes[p] = "err" /\ pc'[p] # pc[p])
            => (~dbConnected' /\ cdRes'[p] = "ConnectError")]_vars
  /\ [][\A h \in Handlers :
          (pc[h] = "idle" /\ pc'[h] # "idle" /\ ~dbConnected /\ ValidInput(req'[h]))
            => (connectCalls' = connectCalls + 1 /\ pc'[h] = "cd_await_connect")]_vars

\* a call that started a new connect after the startup connect had failed
C30_Witness ==
  \E h \in Handlers :
    /\ pc[h] = "cd_await_connect"
    /\ connectCalls = 2 /\ connState = "connecting"
    /\ ~dbConnected /\ pc[InitCall] = "done"

\* ------------------------------------------- properties of the handler's flow

\* C31: a call that issued a store query named a model that is in
\* AVAILABLE_MODELS and registered; a finished call on any other name was
\* answered and issued no store query.
C31_QueryOnlyRegistered ==
  \A h \in Handlers :
    /\ storeCalls[h] > 0 => req[h].model \in AVAILABLE_MODELS \cap modelNames
    /\ (pc[h] = "done" /\ req[h].model \notin AVAILABLE_MODELS \cap modelNames)
         => (resp[h] # NoResp /\ resp[h].kind # "Success" /\ storeCalls[h] = 0
             /\ q[h] = NoQ)

\* with the flag set, a call on a listed name that no model file registered
\* was answered without a query while a call on a registered name is querying
C31_Witness ==
  /\ dbConnected
  /\ \E h \in Handlers :
       /\ pc[h] = "done" /\ req[h].model = "Booking" /\ "Booking" \notin modelNames
       /\ resp[h].cause \in {"Booking", "MissingSchemaError"}
  /\ \E g \in Handlers : pc[g] = "await_find" /\ req[g].model \in modelNames

\* C32: countDocuments is issued only in the step in which find returned
\* successfully; a call whose find failed issued one store call and got no
\* success envelope; a success envelope follows two store calls that succeeded.
C32_CountAfterFind ==
  /\ [][\A h \in Handlers :
          storeCalls'[h] > 1
            => \/ storeCalls[h] = storeCalls'[h]
               \/ /\ pc[h] = "await_find" /\ pc'[h] = "await_count"
                  /\ q'[h].failedAt = "none"]_vars
  /\ [](\A h \in Handlers :
          /\ q[h].failedAt = "find"
               => (storeCalls[h] = 1 /\ pc[h] = "done" /\ resp[h].kind # "Success")
          /\ pc[h] = "await_count" => q[h].failedAt = "none"
          /\ Success(h) => (storeCalls[h] = 2 /\ q[h].failedAt = "none"))

\* a call answered with the store's failure after one store call
C32_Witness ==
  \E h \in Handlers :
    /\ pc[h] = "done" /\ q[h].failedAt = "find" /\ storeCalls[h] = 1
    /\ resp[h].cause = "StoreError"
    /\ store # {}

\* the ids seen by paging through query qq on collection S from offset skip,
\* following hasMore
RECURSIVE Pages(_, _, _)
Pages(S, qq, skip) ==
  LET page == FindResult(S, [qq EXCEPT !.skip = skip])
      total == Cardinality(Matching(S, qq.filter))
  IN IdSeq(page) \o
       (IF HasMore(skip, Len(page), total) /\ skip <= MaxDocs
        THEN Pages(S, qq, skip + qq.limit) ELSE << >>)

C34_NoLazyTriggerInPrimary ==
  /\ [](variant = "primary"
          => /\ connectCalls = 1 /\ cdNoop = 0 /\ loadCalls <= 1
             /\ transportUp => dbConnected
             /\ \A h \in Handlers :
                  pc[h] \in {"idle", "await_find", "await_count", "done"})
  /\ [][\A h \in Handlers :
          (variant = "primary" /\ pc[h] = "idle" /\ pc'[h] # "idle") => dbConnected]_vars

\* the primary server answered a call, one connect and one load pass behind it
C34_Witness ==
  /\ variant = "primary"
  /\ connectCalls = 1 /\ loadCalls = 1
  /\ \E h \in Handlers : Success(h)

====
